---- MODULE Spec2Model ----
(***************************************************************************)
(* Model of exec_trace.py: the ExecTrace traversal engine, which maps the  *)
(* reachable code of a binary image into CodeBlock address ranges.         *)
(*                                                                         *)
(* The engine is driven by a child class whose disasm_instruction reads    *)
(* operand bytes with fetch() and declares the instruction's behaviour by  *)
(* calling one of the five description methods (class docstring).  The     *)
(* image's contents are an input: each decoded instruction's kind, operand *)
(* count and target are drawn nondeterministically when it is decoded (no  *)
(* address is decoded twice, C5_ExploredOnce, so this ranges over exactly  *)
(* the fixed images).  One iteration of run()'s while loop is one action.  *)
(***************************************************************************)
EXTENDS Integers, Sequences, FiniteSets, TLC

\* ---- bounds ----
RomLen == 3        \* len(self.rom): bytes 0 .. RomLen-1 can be fetched
MaxOperands == 1   \* operand bytes disasm_instruction may fetch after the opcode
MaxRuns == 2       \* calls of run() the caller makes on one engine

\* ---- program constants ----
rombank == 0       \* ExecTrace.__init__ default
None == -1         \* Python's None for PC / current_entry_point (never a valid address)

Addresses == 0 .. RomLen          \* entry points and targets; RomLen lies past the image
IllegalOpcodes == {0, 255}        \* opcode bytes the classifier may reject

VARIABLES
  visited_ranges,        \* list of CodeBlock
  pending_entry_points,  \* list of addresses
  current_entry_point,
  PC,
  status,                \* "idle" | "running" | "exited" (sys.exit) | "crashed" (exception)
  runs,                  \* number of run() calls made so far
  grouped,               \* last value returned by get_grouped_ranges()
  decoded,               \* history: address -> times the PC advanced past it in this run
  entries,               \* history: address -> scans started at it in this run
  declared,              \* history: <<kind, site, target>> of the calls and branches of this run
  last                   \* history: what the last loop iteration did

vars == <<visited_ranges, pending_entry_points, current_entry_point, PC,
          status, runs, grouped, decoded, entries, declared, last>>

\* ---- CodeBlock ----
\* A successor is an address or the illegal-opcode text.
Succ(a) == [tag |-> "addr", val |-> a]
IllegalText(opcode) == [tag |-> "Illegal Opcode", val |-> opcode]

\* subroutines is the dict instr_address -> routine_address, as a set of pairs.
CodeBlock(start, end, next_block) ==
  [start |-> start, end |-> end, subroutines |-> {}, next_block |-> next_block]

add_subroutine_call(block, instr_address, routine_address) ==
  [block EXCEPT !.subroutines =
     {p \in @ : p[1] # instr_address} \cup {<<instr_address, routine_address>>}]

\* ---- engine state threaded through the methods ----
\* vr, pend, cep, pc : the four fields of ExecTrace
\* raised            : an exception is propagating
\* dec, ent          : the history counters
\* added             : blocks created by add_range in this iteration
\* sched             : schedule_entry_point calls of this iteration
\* av                : already_visited calls of this iteration
Range(seq) == {seq[i] : i \in 1 .. Len(seq)}

\* F applied to the value of v (v is evaluated once, as a Python argument is)
Bind(v, F(_)) == CHOOSE r \in {F(x) : x \in {v}} : TRUE

Covers(block, address) == address >= block.start /\ address <= block.end

\* index of the first block of the list containing address, 0 if none
FirstHit(vr, address) ==
  IF \E i \in 1 .. Len(vr) : Covers(vr[i], address)
    THEN CHOOSE i \in 1 .. Len(vr) :
           /\ Covers(vr[i], address)
           /\ \A j \in 1 .. (i - 1) : ~Covers(vr[j], address)
    ELSE 0

\* split that forgets "codeblock.start = address"
split_no_shrink(s, i, address) ==
  [ret |-> TRUE,
   s |-> [s EXCEPT !.vr = Append(@, CodeBlock(s.vr[i].start, address - 1,
                                              <<Succ(address)>>))]]

\* split that forgets "self.visited_ranges.append(new_block)"
split_no_append(s, i, address) ==
  [ret |-> TRUE,
   s |-> [s EXCEPT !.vr = [@ EXCEPT ![i] = [@ EXCEPT !.start = address]]]]

\* split that gives the old successors to the new first half
split_swap_successors(s, i, address) ==
  [ret |-> TRUE,
   s |-> [s EXCEPT !.vr =
            Append([@ EXCEPT ![i] = [@ EXCEPT !.start = address,
                                              !.next_block = <<Succ(address)>>]],
                   CodeBlock(s.vr[i].start, address - 1, s.vr[i].next_block))]]

\* The split of already_visited: the block is mutated in place, the call sites
\* below the split point move to the new first half, which is appended.
\* Deleting from the dict while iterating over it raises RuntimeError right
\* after the first entry is moved (the dict iterates in insertion order, which
\* within a block is increasing call-site address), before the append.
split(s, i, address) ==
  LET codeblock == s.vr[i]
      below == {p \in codeblock.subroutines : p[1] < address}
      new_block == CodeBlock(codeblock.start, address - 1, <<Succ(address)>>)
      shrunk == [codeblock EXCEPT !.start = address]
  IN
  IF below # {}
    THEN
      LET first == CHOOSE p \in below : \A q \in below : p[1] <= q[1] IN
      [ret |-> FALSE,
       s |-> [s EXCEPT !.vr = [@ EXCEPT ![i] =
                                 [shrunk EXCEPT !.subroutines = @ \ {first}]],
                       !.raised = TRUE]]
    ELSE [ret |-> TRUE,
          s |-> [s EXCEPT !.vr = Append([@ EXCEPT ![i] = shrunk], new_block)]]

\* already_visited: [ret, s]
visited_test(s, address) ==
  IF s.pc # None /\ address >= s.cep /\ address < s.pc
    THEN [ret |-> TRUE, s |-> s]
    ELSE
      Bind(FirstHit(s.vr, address), LAMBDA i :
        IF i = 0 THEN [ret |-> FALSE, s |-> s]
        ELSE IF address > s.vr[i].start THEN split(s, i, address)
        ELSE [ret |-> TRUE, s |-> s])

already_visited(s0, address) ==
  Bind(s0, LAMBDA s :
    Bind(visited_test(s, address), LAMBDA r :
      [ret |-> r.ret,
       s |-> [r.s EXCEPT !.av = Append(@, [address |-> address, ret |-> r.ret,
                                            before |-> s.vr, after |-> r.s.vr,
                                            pend_before |-> s.pend,
                                            pend_after |-> r.s.pend,
                                            cep |-> s.cep, pc |-> s.pc])]]))

\* restart that ends the run without looking at pending_entry_points
restart_ends_run(s0) ==
  Bind(s0, LAMBDA s : IF s.raised THEN s ELSE [s EXCEPT !.pc = None])

restart_from_another_entry_point(s0) ==
  Bind(s0, LAMBDA s :
    IF s.raised THEN s
    ELSE IF Len(s.pend) = 0
      THEN [s EXCEPT !.pc = None]
      ELSE
        LET address == s.pend[Len(s.pend)] IN
        [s EXCEPT !.pend = SubSeq(@, 1, Len(@) - 1),
                  !.cep = address,
                  !.pc = address,
                  !.ent = [@ EXCEPT ![address] = @ + 1]])

RECURSIVE add_range(_, _, _, _)
add_range(s0, start, end, exit) ==
  Bind(s0, LAMBDA s :
    IF s.raised THEN s
    ELSE IF end < start
      THEN add_range(s, end, start, exit)
      ELSE
        LET block == CodeBlock(start, end, exit) IN
        [s EXCEPT !.vr = Append(@, block), !.added = Append(@, block)])

\* scheduling without the "not in self.pending_entry_points" test
append_always(s, address) == [s EXCEPT !.pend = Append(@, address)]

append_if_new(s, address) ==
  IF address \notin Range(s.pend)
    THEN [s EXCEPT !.pend = Append(@, address)]
    ELSE s

\* schedule_entry_point without the already_visited test
schedule_unchecked(s0, address) ==
  Bind(s0, LAMBDA s : append_if_new(s, address))

schedule_entry_point(s0, address) ==
  Bind(s0, LAMBDA s :
    IF s.raised THEN s
    ELSE
      Bind(already_visited(s, address), LAMBDA r :
        Bind(IF r.s.raised \/ r.ret THEN r.s ELSE append_if_new(r.s, address), LAMBDA t :
          [t EXCEPT !.sched = Append(@, [address |-> address,
                                         pend_before |-> s.pend, pend_after |-> t.pend,
                                         vr_before |-> s.vr,
                                         cep |-> s.cep, pc |-> s.pc])])))

\* increment_PC that reports visited code but neither closes the scan nor restarts
increment_PC_no_restart(s0) ==
  Bind(s0, LAMBDA s :
    IF FirstHit(s.vr, s.pc) # 0
      THEN [ret |-> "-1", s |-> s]
      ELSE [ret |-> "None",
            s |-> [s EXCEPT !.pc = @ + 1, !.dec = [@ EXCEPT ![s.pc] = @ + 1]]])

\* increment_PC that never looks at the visited ranges
increment_PC_blind(s0) ==
  Bind(s0, LAMBDA s :
    [ret |-> "None",
     s |-> [s EXCEPT !.pc = @ + 1, !.dec = [@ EXCEPT ![s.pc] = @ + 1]]])

\* increment_PC: [ret, s]; it returns -1 when the scan walked into visited
\* code and None otherwise (ret is the text of the returned value)
increment_PC(s0) ==
  Bind(s0, LAMBDA s :
    Bind(already_visited(s, s.pc), LAMBDA r :
      IF r.s.raised THEN [ret |-> "None", s |-> r.s]
      ELSE IF r.ret
        THEN [ret |-> "-1",
              s |-> restart_from_another_entry_point(
                      add_range(r.s, r.s.cep, r.s.pc - 1, <<Succ(r.s.pc)>>))]
        ELSE [ret |-> "None",
              s |-> [r.s EXCEPT !.pc = @ + 1,
                                !.dec = [@ EXCEPT ![r.s.pc] = @ + 1]]]))

\* self.rom[i]: a Python index is valid from -len to len-1
InRom(i) == i < RomLen /\ i >= -RomLen

\* fetch that moves PC before it reads self.rom
fetch_advance_first(s0) ==
  Bind(s0, LAMBDA s :
    IF ~InRom(rombank + s.pc)
      THEN [ret |-> "IndexError", s |-> [s EXCEPT !.raised = TRUE, !.pc = @ + 1]]
      ELSE
        Bind(increment_PC(s), LAMBDA r :
          IF r.s.raised THEN [ret |-> "RuntimeError", s |-> r.s]
          ELSE IF r.ret = "-1" THEN [ret |-> "fell", s |-> r.s]
          ELSE [ret |-> "byte", s |-> r.s]))

\* fetch: [ret, s], ret is "IndexError", "fell" (-1 returned) or "byte"
fetch(s0) ==
  Bind(s0, LAMBDA s :
    IF ~InRom(rombank + s.pc)
      THEN [ret |-> "IndexError", s |-> [s EXCEPT !.raised = TRUE]]
      ELSE
        Bind(increment_PC(s), LAMBDA r :
          IF r.s.raised THEN [ret |-> "RuntimeError", s |-> r.s]
          ELSE IF r.ret = "-1" THEN [ret |-> "fell", s |-> r.s]
          ELSE [ret |-> "byte", s |-> r.s]))

\* ---- methods declaring the behaviour of branching instructions ----
subroutine(s0, address) ==
  Bind(s0, LAMBDA s :
    restart_from_another_entry_point(
      schedule_entry_point(
        schedule_entry_point(
          add_range(s, s.cep, s.pc - 1, <<Succ(s.pc), Succ(address)>>),
          s.pc),
        address)))

return_from_subroutine(s0) ==
  Bind(s0, LAMBDA s :
    restart_from_another_entry_point(add_range(s, s.cep, s.pc - 1, <<>>)))

\* branch without the inside case: one block, target scheduled
branch_inside_single(s, address, conditional) ==
  Bind(add_range(s, s.cep, s.pc - 1, <<Succ(s.pc), Succ(address)>>), LAMBDA one :
    schedule_entry_point(
      IF conditional THEN schedule_entry_point(one, s.pc) ELSE one,
      address))

branch_inside(s, address, conditional) ==
  Bind(add_range(add_range(s, s.cep, address - 1, <<Succ(address)>>),
                 address, s.pc - 1, <<Succ(s.pc), Succ(address)>>), LAMBDA two :
    IF conditional THEN schedule_entry_point(two, s.pc) ELSE two)

branch_outside(s, address, conditional) ==
  Bind(add_range(s, s.cep, s.pc - 1, <<Succ(s.pc), Succ(address)>>), LAMBDA one :
    schedule_entry_point(
      IF conditional THEN schedule_entry_point(one, s.pc) ELSE one,
      address))

branch(s0, address, conditional) ==
  Bind(s0, LAMBDA s :
    restart_from_another_entry_point(
      IF address > s.cep /\ address < s.pc
        THEN branch_inside(s, address, conditional)
        ELSE branch_outside(s, address, conditional)))

conditional_branch(s, address) == branch(s, address, TRUE)

unconditional_jump(s, address) == branch(s, address, FALSE)

\* illegal_instruction closing the block one address late (end=self.PC)
illegal_instruction_late(s0, opcode) ==
  Bind(s0, LAMBDA s :
    [add_range(s, s.cep, s.pc, <<IllegalText(opcode)>>) EXCEPT !.exited = TRUE])

\* illegal_instruction that only ends the scan (restart instead of sys.exit)
illegal_instruction_resume(s0, opcode) ==
  Bind(s0, LAMBDA s :
    restart_from_another_entry_point(
      add_range(s, s.cep, s.pc - 1, <<IllegalText(opcode)>>)))

\* add_range, then sys.exit(-1)
illegal_instruction(s0, opcode) ==
  Bind(s0, LAMBDA s :
    [add_range(s, s.cep, s.pc - 1, <<IllegalText(opcode)>>) EXCEPT !.exited = TRUE])

\* ---- the child class's disasm_instruction (contract of the class docstring) ----
\* It reads its operand bytes with fetch() and then declares the behaviour of
\* the instruction.  A fetch that raises ends the run; after a fetch that
\* returned -1 (the scan was closed by increment_PC) nothing is declared.
RECURSIVE fetch_operands(_, _)
fetch_operands(s, n) ==
  IF n = 0 THEN [ret |-> "byte", s |-> s]
  ELSE
    Bind(fetch(s), LAMBDA r :
      IF r.ret # "byte" THEN r ELSE fetch_operands(r.s, n - 1))

declare(s, kind, target, opcode) ==
  CASE kind = "Call" -> subroutine(s, target)
    [] kind = "Return" -> return_from_subroutine(s)
    [] kind = "ConditionalBranch" -> conditional_branch(s, target)
    [] kind = "UnconditionalJump" -> unconditional_jump(s, target)
    [] kind = "Illegal" -> illegal_instruction(s, opcode)
    [] OTHER -> s

\* ---- get_grouped_ranges ----
RECURSIVE insert_by_start(_, _)
insert_by_start(sorted, block) ==
  IF sorted = <<>> THEN <<block>>
  ELSE IF sorted[Len(sorted)].start <= block.start
    THEN Append(sorted, block)
    ELSE Append(insert_by_start(SubSeq(sorted, 1, Len(sorted) - 1), block),
                sorted[Len(sorted)])

\* sorted(self.visited_ranges, key=lambda cb: cb.start), a stable sort
RECURSIVE sorted_by_start(_)
sorted_by_start(vr) ==
  IF vr = <<>> THEN <<>>
  ELSE insert_by_start(sorted_by_start(SubSeq(vr, 1, Len(vr) - 1)), vr[Len(vr)])

\* The loop body from the second block on: merge into current, or append
\* current and return from inside the loop.  Falling off the loop returns None.
RECURSIVE grouped_loop(_, _, _)
grouped_loop(blocks, i, current) ==
  IF i > Len(blocks) THEN [ret |-> "None", val |-> <<>>]
  ELSE IF blocks[i].start = current[2] \/ blocks[i].start = current[2] + 1
    THEN grouped_loop(blocks, i + 1, <<current[1], blocks[i].end>>)
    ELSE [ret |-> "list", val |-> <<current>>]

get_grouped_ranges(vr) ==
  LET blocks == sorted_by_start(vr) IN
  IF blocks = <<>> THEN [ret |-> "None", val |-> <<>>]
  ELSE grouped_loop(blocks, 2, <<blocks[1].start, blocks[1].end>>)

\* ---- state machine ----
NoEvent == [kind |-> "none", site |-> None, target |-> None, opcode |-> None,
            cep |-> None, pc |-> None,
            added |-> <<>>, sched |-> <<>>, av |-> <<>>]
NotGrouped == [ret |-> "unset", val |-> <<>>]
ZeroCount == [a \in Addresses |-> 0]

Init ==
  /\ visited_ranges = <<>>
  /\ pending_entry_points = <<>>
  /\ current_entry_point = None
  /\ PC = None
  /\ status = "idle"
  /\ runs = 0
  /\ grouped = NotGrouped
  /\ decoded = ZeroCount
  /\ entries = ZeroCount
  /\ declared = {}
  /\ last = NoEvent

\* the engine's fields as the record the methods work on
Self ==
  [vr |-> visited_ranges, pend |-> pending_entry_points,
   cep |-> current_entry_point, pc |-> PC,
   raised |-> FALSE, exited |-> FALSE,
   dec |-> decoded, ent |-> entries,
   added |-> <<>>, sched |-> <<>>, av |-> <<>>]

\* store the methods' result; the while loop of run() ends when PC is None
Commit(s, event) ==
  /\ visited_ranges' = s.vr
  /\ pending_entry_points' = s.pend
  /\ current_entry_point' = s.cep
  /\ PC' = s.pc
  /\ decoded' = s.dec
  /\ entries' = s.ent
  /\ status' = IF s.raised THEN "crashed"
               ELSE IF s.exited THEN "exited"
               ELSE IF s.pc = None THEN "idle"
               ELSE "running"
  /\ last' = [event EXCEPT !.added = s.added, !.sched = s.sched, !.av = s.av]
  /\ declared' = IF event.target = None THEN declared
                 ELSE declared \cup {<<event.kind, event.site, event.target>>}
  /\ UNCHANGED <<runs, grouped>>

Event(kind, target, opcode, s) ==
  [kind |-> kind, site |-> PC, target |-> target, opcode |-> opcode,
   cep |-> s.cep, pc |-> s.pc,
   added |-> <<>>, sched |-> <<>>, av |-> <<>>]

\* run(entry_point): set the cursor; the loop iterations follow
run(entry_point) ==
  /\ status = "idle"
  /\ runs' = runs + 1
  /\ current_entry_point' = entry_point
  /\ PC' = entry_point
  /\ status' = "running"
  /\ decoded' = ZeroCount
  /\ entries' = [ZeroCount EXCEPT ![entry_point] = 1]
  /\ declared' = {}
  /\ last' = NoEvent
  /\ grouped' = NotGrouped
  /\ UNCHANGED <<visited_ranges, pending_entry_points>>

\* the first run of a freshly constructed engine
FirstRun ==
  /\ runs = 0
  /\ \E entry_point \in Addresses : run(entry_point)

\* a further run on the same engine, after the previous one returned
LaterRun ==
  /\ runs > 0
  /\ runs < MaxRuns
  /\ \E entry_point \in Addresses : run(entry_point)

\* One loop iteration in which the opcode and n operand bytes are fetched and
\* the instruction is declared to be of the given kind.
Instruction(kind, n, target, opcode) ==
  \E f \in {fetch_operands(Self, n + 1)} :
    /\ f.ret = "byte"
    /\ \E s \in {declare(f.s, kind, target, opcode)} :
         Commit(s, Event(kind, target, opcode, f.s))

Sequential ==
  /\ status = "running"
  /\ \E n \in 0 .. MaxOperands : Instruction("Sequential", n, None, None)

Call ==
  /\ status = "running"
  /\ \E n \in 0 .. MaxOperands, t \in Addresses : Instruction("Call", n, t, None)

Return ==
  /\ status = "running"
  /\ \E n \in 0 .. MaxOperands : Instruction("Return", n, None, None)

ConditionalBranch ==
  /\ status = "running"
  /\ \E n \in 0 .. MaxOperands, t \in Addresses :
       Instruction("ConditionalBranch", n, t, None)

UnconditionalJump ==
  /\ status = "running"
  /\ \E n \in 0 .. MaxOperands, t \in Addresses :
       Instruction("UnconditionalJump", n, t, None)

Illegal ==
  /\ status = "running"
  /\ \E op \in IllegalOpcodes : Instruction("Illegal", 0, None, op)

\* A loop iteration whose opcode fetch, or a later operand fetch, returned -1:
\* increment_PC found the PC inside a visited block and closed the scan.
AlreadyBeen ==
  /\ status = "running"
  /\ \E n \in 0 .. MaxOperands :
       \E f \in {fetch_operands(Self, n + 1)} :
       /\ f.ret = "fell"
       /\ Commit(f.s, Event("AlreadyBeen", None, None, f.s))

\* A loop iteration in which self.rom[...] raises IndexError.
OutOfRange ==
  /\ status = "running"
  /\ \E n \in 0 .. MaxOperands :
       \E f \in {fetch_operands(Self, n + 1)} :
       /\ f.ret = "IndexError"
       /\ Commit(f.s, Event("IndexError", None, None, f.s))

\* the caller asks for the grouped ranges between runs
GetGroupedRanges ==
  /\ status = "idle"
  /\ runs > 0
  /\ grouped' = get_grouped_ranges(visited_ranges)
  /\ UNCHANGED <<visited_ranges, pending_entry_points, current_entry_point, PC,
                 status, runs, decoded, entries, declared, last>>

Loop ==
  \/ Sequential
  \/ Call
  \/ Return
  \/ ConditionalBranch
  \/ UnconditionalJump
  \/ Illegal
  \/ AlreadyBeen
  \/ OutOfRange

Next ==
  \/ FirstRun
  \/ Loop
  \/ GetGroupedRanges

\* one run on a fresh engine
Spec == Init /\ [][Next]_vars

\* run() executes its loop until it ends or fails
FairSpec == Spec /\ WF_vars(Loop)

NextRuns ==
  \/ Next
  \/ LaterRun

\* successive runs on one engine
SpecRuns == Init /\ [][NextRuns]_vars

TypeOK ==
  /\ status \in {"idle", "running", "exited", "crashed"}
  /\ PC \in Addresses \cup {None}
  /\ (status = "running") => (PC # None)

\* ---- properties ----
Disjoint(b1, b2) == b1.end < b2.start \/ b2.end < b1.start

NoOverlap(vr) ==
  \A i, j \in 1 .. Len(vr) : (i < j) => Disjoint(vr[i], vr[j])

\* indices of the blocks whose range holds address
Covering(vr, address) == {i \in 1 .. Len(vr) : Covers(vr[i], address)}

DecodedOnce == \A a \in Addresses : (decoded[a] > 0) => (Cardinality(Covering(visited_ranges, a)) = 1)

\* C1: during and after a single run on a fresh engine, the ranges of the
\* blocks of visited_ranges are pairwise disjoint.
C1_NonOverlap == NoOverlap(visited_ranges)

\* a block was split and at least three blocks exist
C1_Witness ==
  /\ Len(visited_ranges) >= 3
  /\ \E k \in 1 .. Len(last.av) : last.av[k].before # last.av[k].after

\* C2: after every run of a sequence of runs on one engine, for arbitrary
\* entry addresses, the block ranges are pairwise disjoint.
C2_NonOverlapAcrossRuns ==
  (runs > 0 /\ status = "idle") => NoOverlap(visited_ranges)

\* C3 as stated: when a run ends, however it ends, every address decoded in
\* the run lies in exactly one block.
C3_CoverageAtAnyEnd == (runs > 0 /\ status # "running") => DecodedOnce

\* C3 amended: when a run ends with the worklist drained or on an illegal
\* instruction, every address decoded in the run lies in exactly one block.
C3_CoverageAtEnd == (runs > 0 /\ status \in {"idle", "exited"}) => DecodedOnce

\* a run ended normally after decoding three addresses into two or more blocks
C3_Witness ==
  /\ status = "idle"
  /\ Cardinality({a \in Addresses : decoded[a] > 0}) >= 3
  /\ Len(visited_ranges) >= 2
  /\ \E i \in 1 .. Len(visited_ranges) : visited_ranges[i].next_block = <<>>

\* C4: a run always terminates: the loop ends with PC = None, on an illegal
\* instruction or on an out-of-range fetch.
C4_Termination == (status = "running") ~> (status # "running")

\* a run that went through three scans has ended with PC = None
C4_Witness ==
  /\ status = "idle"
  /\ PC = None
  /\ Cardinality({a \in Addresses : entries[a] > 0}) >= 3

\* C5: within a run no address is decoded twice and no address is the entry
\* point of two scans.
C5_ExploredOnce ==
  \A a \in Addresses : decoded[a] <= 1 /\ entries[a] <= 1

\* two scans from different entry points each decoded their entry
C5_Witness ==
  \E a, b \in Addresses :
    /\ a # b
    /\ entries[a] = 1 /\ entries[b] = 1
    /\ decoded[a] = 1 /\ decoded[b] = 1

\* C6: already_visited(a) on an address inside a closed block [s, e], s < a,
\* leaves the blocks [s, a-1] with the single successor a and [a, e] with the
\* old successors, the call sites below a on the first; a = s changes nothing.
C6_SplitCorrect ==
  \A k \in 1 .. Len(last.av) :
    \A i \in 1 .. Len(last.av[k].before) :
      LET a == last.av[k].address
          b == last.av[k].before[i]
          after == Range(last.av[k].after)
      IN
      /\ (b.start < a /\ a <= b.end) =>
           /\ [start |-> b.start, end |-> a - 1, next_block |-> <<Succ(a)>>,
               subroutines |-> {p \in b.subroutines : p[1] < a}] \in after
           /\ [start |-> a, end |-> b.end, next_block |-> b.next_block,
               subroutines |-> {p \in b.subroutines : p[1] >= a}] \in after
      /\ (a = b.start) => (last.av[k].after = last.av[k].before)

NoDuplicates(seq) == \A i, j \in 1 .. Len(seq) : (i < j) => (seq[i] # seq[j])

\* C7: schedule_entry_point(a) leaves the worklist as it is when a is pending,
\* inside a closed block or inside the current scan's span, and appends a
\* otherwise; the worklist never holds an address twice.
C7_IdempotentScheduling ==
  /\ NoDuplicates(pending_entry_points)
  /\ \A k \in 1 .. Len(last.sched) :
       LET c == last.sched[k]
           known == \/ c.address \in Range(c.pend_before)
                    \/ Covering(c.vr_before, c.address) # {}
                    \/ (c.pc # None /\ c.cep <= c.address /\ c.address < c.pc)
       IN c.pend_after = IF known THEN c.pend_before
                         ELSE Append(c.pend_before, c.address)

\* an address pending since an earlier iteration was scheduled again, and in
\* the same handler another address was appended
C7_Witness ==
  /\ \E k \in 1 .. Len(last.sched) :
       last.sched[k].address \in Range(last.sched[1].pend_before)
  /\ \E k \in 1 .. Len(last.sched) :
       last.sched[k].pend_after = Append(last.sched[k].pend_before, last.sched[k].address)

\* the intervals left after merging every block that starts at, or right
\* after, the end of the interval before it
RECURSIVE merge_all(_, _, _, _)
merge_all(blocks, i, current, acc) ==
  IF i > Len(blocks) THEN Append(acc, current)
  ELSE IF blocks[i].start = current[2] \/ blocks[i].start = current[2] + 1
    THEN merge_all(blocks, i + 1, <<current[1], blocks[i].end>>, acc)
    ELSE merge_all(blocks, i + 1, <<blocks[i].start, blocks[i].end>>,
                   Append(acc, current))

MaximalIntervals(vr) ==
  LET blocks == sorted_by_start(vr) IN
  IF blocks = <<>> THEN <<>>
  ELSE merge_all(blocks, 2, <<blocks[1].start, blocks[1].end>>, <<>>)

\* C8: get_grouped_ranges() returns the maximal contiguous intervals covered
\* by the blocks, every mergeable run merged and the last interval included.
C8_GroupedRanges ==
  (grouped.ret # "unset") =>
    (grouped = [ret |-> "list", val |-> MaximalIntervals(visited_ranges)])

\* C9: the call declared at address c with target t is recorded as
\* calls[c] = t on the block that contains c, also after later splits.
C9_CallRecorded ==
  \A e \in declared :
    (e[1] = "Call") =>
      \E i \in 1 .. Len(visited_ranges) :
        /\ Covers(visited_ranges[i], e[2])
        /\ <<e[2], e[3]>> \in visited_ranges[i].subroutines

\* C10: a jump or branch whose target is not strictly inside the current scan
\* closes [current_entry_point, PC-1] with successors [target] (jump) or
\* [PC, target] (conditional), and schedules target (jump) or PC and target.
C10_ForwardBranch ==
  (/\ last.kind \in {"UnconditionalJump", "ConditionalBranch"}
   /\ (last.target >= last.pc \/ last.target <= last.cep)) =>
    /\ last.added =
         <<[start |-> last.cep, end |-> last.pc - 1, subroutines |-> {},
            next_block |-> IF last.kind = "UnconditionalJump"
                             THEN <<Succ(last.target)>>
                             ELSE <<Succ(last.pc), Succ(last.target)>>]>>
    /\ [k \in 1 .. Len(last.sched) |-> last.sched[k].address] =
         IF last.kind = "UnconditionalJump"
           THEN <<last.target>>
           ELSE <<last.pc, last.target>>

\* C11 as stated: the block closed by an illegal opcode at address A ends at
\* A-1 and its only successor is the opcode's diagnostic text.
C11_IllegalBlockBeforeOpcode ==
  (last.kind = "Illegal") =>
    /\ Len(last.added) = 1
    /\ last.added[1].end = last.site - 1
    /\ last.added[1].next_block = <<IllegalText(last.opcode)>>

\* C11 amended: the block closed by an illegal opcode at address A is
\* [current_entry_point, A], the opcode's own address being its last address,
\* and its only successor is the opcode's diagnostic text.
C11_IllegalBlock ==
  (last.kind = "Illegal") =>
    /\ last.added = <<[start |-> last.cep, end |-> last.site, subroutines |-> {},
                       next_block |-> <<IllegalText(last.opcode)>>]>>
    /\ visited_ranges[Len(visited_ranges)] = last.added[1]

\* an illegal opcode was met after at least one other byte of the same scan
C11_Witness ==
  /\ last.kind = "Illegal"
  /\ status = "exited"
  /\ last.site > last.cep

\* the fields of the engine and what was decoded and scanned
engine == <<visited_ranges, pending_entry_points, current_entry_point, PC,
            decoded, entries>>

\* C12: the iteration that meets an illegal opcode pops no entry point and
\* splits no block, and after it nothing changes any more: no block is added
\* or split, no entry point popped or scanned, no instruction decoded.
C12_IllegalIsFatal ==
  [][/\ (status = "running" /\ last'.kind = "Illegal") =>
          /\ status' = "exited"
          /\ pending_entry_points' = pending_entry_points
          /\ current_entry_point' = current_entry_point
          /\ SubSeq(visited_ranges', 1, Len(visited_ranges)) = visited_ranges
          /\ Len(visited_ranges') = Len(visited_ranges) + 1
     /\ (last.kind = "Illegal") => (engine' = engine /\ status' = status)]_vars

\* the run stopped on an illegal opcode with an entry point still pending
C12_Witness ==
  /\ last.kind = "Illegal"
  /\ status = "exited"
  /\ pending_entry_points # <<>>

\* C13: the run ends normally only with PC None and the worklist empty: in
\* every state PC = None implies that pending_entry_points is empty, and
\* while an entry point is pending and the run was not stopped by a fatal
\* condition the loop of run() goes on (PC is an address, a step is enabled).
C13_EndsOnlyDrained ==
  /\ (PC = None) => (pending_entry_points = <<>>)
  /\ (status = "idle") <=> (PC = None)
  /\ (pending_entry_points # <<>> /\ status \notin {"exited", "crashed"}) =>
       (PC # None /\ status = "running" /\ ENABLED Loop)

\* a run that used the worklist (three scans) has ended normally
C13_Witness ==
  /\ status = "idle"
  /\ PC = None
  /\ pending_entry_points = <<>>
  /\ \E a, b, c \in Addresses :
       /\ a < b /\ b < c
       /\ entries[a] = 1 /\ entries[b] = 1 /\ entries[c] = 1

\* addresses handed to schedule_entry_point by the last handler, in order
Scheduled(e) == [i \in 1 .. Len(e.sched) |-> e.sched[i].address]

Fell(e) == e.av[Len(e.av)]

\* C15: when fetch finds PC inside a closed block, the scan is closed as the
\* block [current_entry_point, PC-1] with the single successor PC, nothing is
\* decoded at PC, the next pending entry point is popped (or the run ends when
\* none is pending), and PC is the start of a block afterwards.
C15_FellIntoCode ==
  [][(status = "running" /\ last'.kind = "AlreadyBeen") =>
       LET p == Fell(last').address
           cep == Fell(last').cep
       IN /\ Fell(last').ret
          /\ last'.added = <<CodeBlock(cep, p - 1, <<Succ(p)>>)>>
          /\ decoded'[p] = decoded[p]
          /\ \E i \in 1 .. Len(visited_ranges') : visited_ranges'[i].start = p
          /\ IF pending_entry_points = <<>>
               THEN PC' = None /\ status' = "idle"
               ELSE /\ PC' = pending_entry_points[Len(pending_entry_points)]
                    /\ current_entry_point' = PC'
                    /\ pending_entry_points' =
                         SubSeq(pending_entry_points, 1,
                                Len(pending_entry_points) - 1)
                    /\ status' = "running"]_vars

\* C16: every block of visited_ranges is a well-formed range: start and end
\* are addresses (>= 0) with start <= end, it holds only addresses that a
\* scan decoded, and a scan that consumed no byte records no block.  (decoded
\* counts the fetches of the current run, so the containment is stated for
\* the first run, where that is every fetch made so far.)
C16_WellFormed ==
  /\ \A i \in 1 .. Len(visited_ranges) :
       LET block == visited_ranges[i] IN
       /\ block.start >= 0
       /\ block.end >= 0
       /\ block.start <= block.end
       /\ (runs <= 1) =>
            \A a \in block.start .. block.end : a \in Addresses /\ decoded[a] > 0
  /\ (last.kind = "AlreadyBeen" /\ Fell(last).address = Fell(last).cep) =>
       last.added = <<>>

\* C17: no address of the worklist lies inside the range of a closed block,
\* so an entry point popped by restart_from_another_entry_point (last in,
\* first out) is not already visited when its scan starts.
C17_PendingNotVisited ==
  /\ \A i \in 1 .. Len(pending_entry_points) :
       Covering(visited_ranges, pending_entry_points[i]) = {}
  /\ (status = "running" /\ PC = current_entry_point /\ last.kind # "none") =>
       Covering(visited_ranges, PC) = {}

\* the target scheduled last has been scanned and closed, and the
\* fall-through scheduled with it has just been popped for its own scan
C17_Witness ==
  /\ last.kind = "Return"
  /\ status = "running"
  /\ PC = current_entry_point
  /\ \E i \in 1 .. Len(visited_ranges) :
       LET next == visited_ranges[i].next_block IN
       /\ Len(next) = 2
       /\ next[1] = Succ(PC)
       /\ next[2] # Succ(PC)
       /\ entries[next[2].val] = 1
       /\ Covering(visited_ranges, next[2].val) # {}

\* C18: a fetch outside the image is fatal.  The iteration it ends adds and
\* changes no block and leaves the worklist alone; PC stays at the address
\* whose fetch failed (it moved only over the bytes fetched before, each of
\* them decoded), and afterwards nothing is scanned, split or scheduled.
C18_OutOfRangeIsFatal ==
  [][/\ (status = "running" /\ last'.kind = "IndexError") =>
          /\ status' = "crashed"
          /\ visited_ranges' = visited_ranges
          /\ pending_entry_points' = pending_entry_points
          /\ current_entry_point' = current_entry_point
          /\ entries' = entries
          /\ last'.added = <<>> /\ last'.sched = <<>>
          /\ ~InRom(rombank + PC')
          /\ PC' >= PC
          /\ \A a \in Addresses :
               decoded'[a] = decoded[a] + (IF PC <= a /\ a < PC' THEN 1 ELSE 0)
     /\ (last.kind = "IndexError") => (engine' = engine /\ status' = status)]_vars

\* a scan that had decoded something ran past the image while blocks were
\* closed and an entry point was pending
C18_Witness ==
  /\ last.kind = "IndexError"
  /\ status = "crashed"
  /\ PC > current_entry_point
  /\ visited_ranges # <<>>
  /\ pending_entry_points # <<>>

\* addresses inside some block, and the starts of the blocks
Covered(vr) == {a \in -1 .. RomLen : Covering(vr, a) # {}}
Starts(vr) == {vr[i].start : i \in 1 .. Len(vr)}

\* what one call of already_visited (logged as e) may do
SplitOnly(e) ==
  /\ Covered(e.after) = Covered(e.before)
  /\ e.pend_after = e.pend_before
  /\ Len(e.after) \in {Len(e.before), Len(e.before) + 1}
  /\ \A j \in 1 .. Len(e.before) :
       /\ e.after[j].next_block = e.before[j].next_block
       /\ e.after[j].end = e.before[j].end
  /\ (Len(e.after) > Len(e.before)) =>
       /\ e.ret
       /\ e.after[Len(e.after)].next_block = <<Succ(e.address)>>
       /\ e.after[Len(e.after)].end = e.address - 1
  /\ (~e.ret) => (e.after = e.before)

\* C19: blocks are never destroyed, only split: no step shrinks the set of
\* covered addresses and every block start stays a block start; a call of
\* already_visited leaves the covered set, the worklist and the successors of
\* every block but the new first half as they were, and changes nothing when
\* it returns False.
C19_OnlySplit ==
  [][/\ Covered(visited_ranges) \subseteq Covered(visited_ranges')
     /\ Starts(visited_ranges) \subseteq Starts(visited_ranges')
     /\ \A i \in 1 .. Len(last'.av) : SplitOnly(last'.av[i])]_vars

\* already_visited has split a closed block, and has answered False
C19_Witness ==
  /\ \E i \in 1 .. Len(last.av) :
       /\ last.av[i].ret
       /\ Len(last.av[i].after) = Len(last.av[i].before) + 1
       /\ last.av[i].before # <<>>
  /\ \E i \in 1 .. Len(last.av) : ~last.av[i].ret

\* C20: when a run has ended normally, the target of every Call,
\* ConditionalBranch and UnconditionalJump it handled is the start of a
\* block, also when a Call target lies strictly inside the block closed by
\* the call.
C20_TargetsAreStarts ==
  (status = "idle" /\ runs > 0) =>
    \A e \in declared : e[3] \in Starts(visited_ranges)
====
